---- MODULE Spec2Model ----
(***************************************************************************)
(* Model of skills/imessage-extraction/scripts/create_clean_db.py:         *)
(* the timestamp converters, the attributedBody decoder, the text          *)
(* normaliser clean_message, the two classifiers and the message loop of   *)
(* create_clean_database.                                                  *)
(*                                                                         *)
(* A Python str is a sequence of code points (integers), a bytes object a  *)
(* sequence of integers in 0..255.  None is the one-element sequence       *)
(* <<-1>>, which is no str and no bytes object (TLC compares only values   *)
(* of one kind, so None has to be a sequence as well).                     *)
(***************************************************************************)
EXTENDS Integers, Sequences, FiniteSets, TLC

VARIABLES
    pc,                \* position of the function or loop being run
    text,              \* clean_message / is_*_message: the argument
    cleaned,           \* clean_message: the value returned
    reaching9,         \* clean_message: local text when line 121 is reached
    leaving9,          \* clean_message: local text when line 134 is reached
    recleaned,         \* clean_message applied to its own result
    flag,              \* is_reaction_message / is_quoted_message: the value returned
    data,              \* decode_attributed_body: the argument
    PYOBJC_AVAILABLE,  \* line 31 / 33
    unarchived,        \* what lines 60-65 make of the blob (external)
    decoded,           \* decode_attributed_body: the value returned
    raised,            \* decode_attributed_body: an exception left the function
    timestamp,         \* apple_to_unix / apple_to_datetime: the argument
    date_unix,         \* apple_to_unix: the value returned
    date,              \* apple_to_datetime: the value returned
    message,           \* source table message: ROWID -> row
    chat_message_join, \* source table chat_message_join: <<message_id, chat_id>>
    chat_ids,          \* create_clean_database: the selected chats
    rows,              \* line 297: source_cursor.fetchall()
    count,             \* line 296: rows processed so far
    messages,          \* line 295: the records to insert
    trail,             \* per processed row: local decoded and whether line 306 ran
    target_messages,   \* target table messages, in insertion order
    target_join        \* target table message_chat_join

cleanVars == <<text, cleaned, reaching9, leaving9, recleaned, flag>>

decodeVars == <<data, PYOBJC_AVAILABLE, unarchived, decoded, raised>>

timeVars == <<timestamp, date_unix, date>>

sourceVars == <<message, chat_message_join, chat_ids>>

etlVars == <<rows, count, messages, trail, target_messages, target_join>>

vars == <<pc, cleanVars, decodeVars, timeVars, sourceVars, etlVars>>

----------------------------------------------------------------------------
(* Code points.  Ord maps a one-character string (or the name of a code    *)
(* point that has no TLA+ literal) to its code point, Str a tuple of such  *)
(* strings to the Python str it spells.                                    *)

Ord ==
    (" " :> 32) @@ ("!" :> 33) @@ ("\"" :> 34) @@ ("#" :> 35) @@ ("$" :> 36) @@ ("%" :> 37) @@
    ("&" :> 38) @@ ("'" :> 39) @@ ("(" :> 40) @@ (")" :> 41) @@ ("*" :> 42) @@ ("+" :> 43) @@
    ("," :> 44) @@ ("-" :> 45) @@ ("." :> 46) @@ ("/" :> 47) @@ ("0" :> 48) @@ ("1" :> 49) @@
    ("2" :> 50) @@ ("3" :> 51) @@ ("4" :> 52) @@ ("5" :> 53) @@ ("6" :> 54) @@ ("7" :> 55) @@
    ("8" :> 56) @@ ("9" :> 57) @@ (":" :> 58) @@ (";" :> 59) @@ ("<" :> 60) @@ ("=" :> 61) @@
    (">" :> 62) @@ ("?" :> 63) @@ ("@" :> 64) @@ ("A" :> 65) @@ ("B" :> 66) @@ ("C" :> 67) @@
    ("D" :> 68) @@ ("E" :> 69) @@ ("F" :> 70) @@ ("G" :> 71) @@ ("H" :> 72) @@ ("I" :> 73) @@
    ("J" :> 74) @@ ("K" :> 75) @@ ("L" :> 76) @@ ("M" :> 77) @@ ("N" :> 78) @@ ("O" :> 79) @@
    ("P" :> 80) @@ ("Q" :> 81) @@ ("R" :> 82) @@ ("S" :> 83) @@ ("T" :> 84) @@ ("U" :> 85) @@
    ("V" :> 86) @@ ("W" :> 87) @@ ("X" :> 88) @@ ("Y" :> 89) @@ ("Z" :> 90) @@ ("[" :> 91) @@
    ("\\" :> 92) @@ ("]" :> 93) @@ ("^" :> 94) @@ ("_" :> 95) @@ ("BACKTICK" :> 96) @@ ("a" :> 97) @@
    ("b" :> 98) @@ ("c" :> 99) @@ ("d" :> 100) @@ ("e" :> 101) @@ ("f" :> 102) @@
    ("g" :> 103) @@ ("h" :> 104) @@ ("i" :> 105) @@ ("j" :> 106) @@ ("k" :> 107) @@
    ("l" :> 108) @@ ("m" :> 109) @@ ("n" :> 110) @@ ("o" :> 111) @@ ("p" :> 112) @@
    ("q" :> 113) @@ ("r" :> 114) @@ ("s" :> 115) @@ ("t" :> 116) @@ ("u" :> 117) @@
    ("v" :> 118) @@ ("w" :> 119) @@ ("x" :> 120) @@ ("y" :> 121) @@ ("z" :> 122) @@
    ("{" :> 123) @@ ("|" :> 124) @@ ("}" :> 125) @@ ("~" :> 126) @@ ("\t" :> 9) @@
    ("\n" :> 10) @@ ("\r" :> 13) @@ ("\f" :> 12) @@ ("NUL" :> 0) @@ ("SOH" :> 1) @@
    ("ENQ" :> 5) @@ ("DEL" :> 127) @@ ("NBSP" :> 160) @@ ("U+00C9" :> 201) @@
    ("U+00E9" :> 233) @@ ("U+2018" :> 8216) @@ ("U+2019" :> 8217) @@ ("U+201C" :> 8220) @@
    ("U+201D" :> 8221) @@ ("U+2028" :> 8232) @@ ("U+FFFC" :> 65532)

Str(names) == [i \in 1..Len(names) |-> Ord[names[i]]]

None == << -1 >>

----------------------------------------------------------------------------
(* Character predicates of Python's str type.  The ASCII range is exact;   *)
(* beyond it the predicates are tabulated for the code points of Ord,      *)
(* which are the only ones the inputs below are built from.                *)

\* str.isspace, the regex class \s and the characters str.strip removes
IsSpace(c) == c \in {9, 10, 11, 12, 13, 28, 29, 30, 31, 32, 133, 160, 8232, 8233}

\* str.isprintable
IsPrintable(c) == c \in 32..126 \/ c \in {201, 233, 8216, 8217, 8220, 8221, 65532}

\* the regex class [A-Za-z]
IsAsciiLetter(c) == c \in 65..90 \/ c \in 97..122

\* the regex class [0-9]
IsAsciiDigit(c) == c \in 48..57

\* str.isupper, str.islower, str.isalpha on one character
IsUpper(c) == c \in 65..90 \/ c = 201

IsLower(c) == c \in 97..122 \/ c = 233

IsAlpha(c) == IsUpper(c) \/ IsLower(c)

\* str.lower on one character
LowerChar(c) == IF c \in 65..90 THEN c + 32 ELSE IF c = 201 THEN 233 ELSE c

Lower(s) == [i \in 1..Len(s) |-> LowerChar(s[i])]

----------------------------------------------------------------------------
(* Sequence helpers: slices, str.strip, str.rstrip.                        *)

Take(s, n) == SubSeq(s, 1, n)

Drop(s, n) == SubSeq(s, n + 1, Len(s))

HasAt(s, i, lit) == i >= 1 /\ i + Len(lit) - 1 <= Len(s) /\ SubSeq(s, i, i + Len(lit) - 1) = lit

\* number of leading / trailing whitespace characters
LeadSpaces(s) == CHOOSE n \in 0..Len(s) :
    (\A i \in 1..n : IsSpace(s[i])) /\ (n = Len(s) \/ ~IsSpace(s[n + 1]))

TrailSpaces(s) == CHOOSE n \in 0..Len(s) :
    (\A i \in (Len(s) - n + 1)..Len(s) : IsSpace(s[i])) /\ (n = Len(s) \/ ~IsSpace(s[Len(s) - n]))

RStrip(s) == Take(s, Len(s) - TrailSpaces(s))

Strip(s) == LET r == RStrip(s) IN Drop(r, LeadSpaces(r))

\* from index i to the end, s holds whitespace only
TailIsSpace(s, i) == \A k \in i..Len(s) : IsSpace(s[k])

\* the least element of a non-empty set of integers
Least(S) == CHOOSE x \in S : \A y \in S : x <= y

----------------------------------------------------------------------------
(* clean_message, lines 92-137: one operator per rewrite.                  *)

Sentinels == {Str(<<"[","b","i","n","a","r","y"," ","d","a","t","a","]">>),
              Str(<<"[","n","o"," ","t","e","x","t","]">>)}

ImageTag == Str(<<"[","i","m","a","g","e","]">>)

\* line 98: text.replace('\ufffc', '[image]')
RECURSIVE ReplaceObjChar(_)
ReplaceObjChar(s) ==
    IF s = << >> THEN << >>
    ELSE (IF Head(s) = 65532 THEN ImageTag ELSE <<Head(s)>>) \o ReplaceObjChar(Tail(s))

\* line 101: keep printable characters and \n \r \t
KeepChar(c) == IsPrintable(c) \/ c \in {10, 13, 9}

RemoveNonPrintable(s) == SelectSeq(s, KeepChar)

\* line 104: re.sub(r'^[\+\*\!\.\,\;\#\%\`\~\^\&\@\$\s]+', '', text)
IsFormatCode(c) ==
    \/ c \in {43, 42, 33, 46, 44, 59, 35, 37, 96, 126, 94, 38, 64, 36}
    \/ IsSpace(c)

StripLeadingCodes(s) ==
    LET n == CHOOSE m \in 0..Len(s) :
                 (\A i \in 1..m : IsFormatCode(s[i])) /\ (m = Len(s) \/ ~IsFormatCode(s[m + 1]))
    IN  Drop(s, n)

\* A pattern that ends in $ and cannot match the empty string matches at most
\* once; re.sub removes the leftmost match.  MatchStarts is the set of
\* positions at which the pattern matches, keep what follows the match.
\* line 107: re.sub(r'\s*NSDictionary\s*$', '', text)
LitNSDictionary == Str(<<"N","S","D","i","c","t","i","o","n","a","r","y">>)

MatchNSDictionary(s, p) == \E q \in p..Len(s) :
    /\ \A k \in p..(q - 1) : IsSpace(s[k])
    /\ HasAt(s, q, LitNSDictionary)
    /\ TailIsSpace(s, q + Len(LitNSDictionary))

StripNSDictionary(s) ==
    LET starts == {p \in 1..Len(s) : MatchNSDictionary(s, p)}
    IN  IF starts = {} THEN s ELSE Take(s, Least(starts) - 1)

\* line 108: re.sub(r'\s*NSMutable[A-Za-z]+\s*$', '', text)
LitNSMutable == Str(<<"N","S","M","u","t","a","b","l","e">>)

MatchNSMutable(s, p) == \E q \in p..Len(s) :
    /\ \A k \in p..(q - 1) : IsSpace(s[k])
    /\ HasAt(s, q, LitNSMutable)
    /\ \E e \in (q + Len(LitNSMutable))..Len(s) :
          /\ \A k \in (q + Len(LitNSMutable))..e : IsAsciiLetter(s[k])
          /\ TailIsSpace(s, e + 1)

StripNSMutable(s) ==
    LET starts == {p \in 1..Len(s) : MatchNSMutable(s, p)}
    IN  IF starts = {} THEN s ELSE Take(s, Least(starts) - 1)

\* $ matches at the end of the string and before a newline that ends it; "."
\* and [^\s] match no newline.  RestToEnd(s, i, Ok): the characters from i on
\* satisfy Ok up to the end, or up to a final newline, which the match leaves.
FinalNewline(s, i) == i <= Len(s) /\ s[Len(s)] = 10 /\ \A k \in i..(Len(s) - 1) : s[k] # 10

\* line 111: re.sub(r'\s*&?__kIM[^\s]*.*$', '', text)
LitKIM == Str(<<"_","_","k","I","M">>)

MatchKIM(s, p) == \E q \in p..Len(s) :
    /\ \A k \in p..(q - 1) : IsSpace(s[k])
    /\ LET r == IF HasAt(s, q, LitKIM) THEN q + 5
                ELSE IF s[q] = 38 /\ HasAt(s, q + 1, LitKIM) THEN q + 6
                ELSE 0
       IN  /\ r # 0
           /\ \/ \A k \in r..Len(s) : s[k] # 10
              \/ FinalNewline(s, r)

StripKIM(s) ==
    LET starts == {p \in 1..Len(s) : MatchKIM(s, p)}
    IN  IF starts = {} THEN s
        ELSE Take(s, Least(starts) - 1) \o (IF s[Len(s)] = 10 THEN <<10>> ELSE << >>)

\* line 113: re.sub(r'[ij]I[^\s]*$', '', text)
MatchIJ(s, p) ==
    /\ s[p] \in {105, 106}
    /\ p + 1 <= Len(s)
    /\ s[p + 1] = 73
    /\ \/ \A k \in (p + 2)..Len(s) : ~IsSpace(s[k])
       \/ /\ s[Len(s)] = 10
          /\ \A k \in (p + 2)..(Len(s) - 1) : ~IsSpace(s[k])

StripIJ(s) ==
    LET starts == {p \in 1..Len(s) : MatchIJ(s, p)}
    IN  IF starts = {} THEN s
        ELSE Take(s, Least(starts) - 1) \o (IF s[Len(s)] = 10 THEN <<10>> ELSE << >>)

\* line 116: re.sub(r'^[0-9](?=[a-zA-Z])', '', text)
StripLeadingDigit(s) ==
    IF Len(s) >= 2 /\ IsAsciiDigit(s[1]) /\ IsAsciiLetter(s[2]) THEN Tail(s) ELSE s

\* lines 121-132: the leading single-letter artifact
LitHttp == Str(<<"h","t","t","p">>)

\* a variant that drops the islower test of line 125
LeadingArtifactAnyCase(s) ==
    IF Len(s) > 2 /\ IsAlpha(s[1])
    THEN LET second_char == s[2]
             rest == Tail(s)
         IN  IF IsUpper(second_char) THEN rest
             ELSE IF Lower(Take(rest, IF Len(rest) < 4 THEN Len(rest) ELSE 4)) = LitHttp THEN rest
             ELSE IF second_char = 105 /\ Len(s) > 2 /\ s[3] \in {32, 39} THEN rest
             ELSE s
    ELSE s

LeadingArtifact(s) ==
    IF Len(s) > 2 /\ IsAlpha(s[1])
    THEN LET second_char == s[2]
             rest == Tail(s)
         IN  IF IsLower(s[1]) /\ IsUpper(second_char) THEN rest
             ELSE IF Lower(Take(rest, IF Len(rest) < 4 THEN Len(rest) ELSE 4)) = LitHttp THEN rest
             ELSE IF second_char = 105 /\ Len(s) > 2 /\ s[3] \in {32, 39} THEN rest
             ELSE s
    ELSE s

\* line 135: re.sub(r'  +', ' ', text)
RECURSIVE CollapseSpaces(_)
CollapseSpaces(s) ==
    IF Len(s) < 2 THEN s
    ELSE IF s[1] = 32 /\ s[2] = 32 THEN CollapseSpaces(Tail(s))
    ELSE <<s[1]>> \o CollapseSpaces(Tail(s))

\* lines 98-116: the rewrites before the leading-artifact correction
BeforeArtifact(s) ==
    StripLeadingDigit(StripIJ(StripKIM(StripNSMutable(StripNSDictionary(
        StripLeadingCodes(RemoveNonPrintable(ReplaceObjChar(s))))))))

\* lines 135-137
AfterArtifact(s) == Strip(CollapseSpaces(s))

\* line 94: "not text" holds of None and of ''
Falsy(s) == s = None \/ s = << >>

clean_message(s) ==
    IF Falsy(s) \/ s \in Sentinels THEN s
    ELSE AfterArtifact(LeadingArtifact(BeforeArtifact(s)))

----------------------------------------------------------------------------
(* is_reaction_message and is_quoted_message, lines 140-161.               *)

\* line 141; the literal repeats the ASCII double quote
QUOTE_CHARS == Str(<<"\"", "'", "\"", "\"", "U+201C", "U+201D", "U+2018", "U+2019">>)

\* line 153: the alternatives of the pattern, in its order
ReactionWords == <<
    Str(<<"R","e","a","c","t","e","d">>),
    Str(<<"L","o","v","e","d">>),
    Str(<<"L","a","u","g","h","e","d">>),
    Str(<<"E","m","p","h","a","s","i","z","e","d">>),
    Str(<<"D","i","s","l","i","k","e","d">>),
    Str(<<"Q","u","e","s","t","i","o","n","e","d">>),
    Str(<<"L","i","k","e","d">>) >>

\* a variant whose pattern lacks the final \s
ReactionMatchNoSpace(s) == \E i \in 1..Len(ReactionWords) : HasAt(s, 1, ReactionWords[i])

\* re.match(r'^(w1|...|w7)\s', text): some alternative matches at the start
\* and a \s character follows it
ReactionMatch(s) == \E i \in 1..Len(ReactionWords) :
    /\ HasAt(s, 1, ReactionWords[i])
    /\ Len(s) > Len(ReactionWords[i])
    /\ IsSpace(s[Len(ReactionWords[i]) + 1])

is_reaction_message(s) == IF Falsy(s) THEN FALSE ELSE ReactionMatch(s)

\* c in QUOTE_CHARS, for one character c
InQuoteChars(c) == \E i \in 1..Len(QUOTE_CHARS) : QUOTE_CHARS[i] = c

\* a variant that tests the last character of text itself (no rstrip)
is_quoted_message_unstripped(s) ==
    IF Falsy(s) THEN FALSE ELSE InQuoteChars(s[Len(s)])

is_quoted_message(s) ==
    IF Falsy(s) THEN FALSE
    ELSE LET stripped == RStrip(s)
         IN  IF stripped # << >> THEN InQuoteChars(stripped[Len(stripped)]) ELSE FALSE

----------------------------------------------------------------------------
(* bytes.decode('utf-8', errors='ignore'): well-formed sequences become    *)
(* code points; an ill-formed byte, or the well-formed start of a          *)
(* sequence that the next byte does not continue, is dropped.              *)

IsCont(b) == b \in 128..191

\* the range the second byte of a sequence led by b0 must lie in
SecondOk(b0, b1) ==
    IF b0 = 224 THEN b1 \in 160..191
    ELSE IF b0 = 237 THEN b1 \in 128..159
    ELSE IF b0 = 240 THEN b1 \in 144..191
    ELSE IF b0 = 244 THEN b1 \in 128..143
    ELSE IsCont(b1)

RECURSIVE Utf8Decode(_)
Utf8Decode(b) ==
    IF b = << >> THEN << >>
    ELSE LET b0 == b[1]
             n  == Len(b)
         IN  IF b0 < 128 THEN <<b0>> \o Utf8Decode(Drop(b, 1))
             ELSE IF b0 \in 194..223 THEN
                 IF n >= 2 /\ IsCont(b[2])
                 THEN <<(b0 - 192) * 64 + (b[2] - 128)>> \o Utf8Decode(Drop(b, 2))
                 ELSE Utf8Decode(Drop(b, 1))
             ELSE IF b0 \in 224..239 THEN
                 IF ~(n >= 2 /\ SecondOk(b0, b[2])) THEN Utf8Decode(Drop(b, 1))
                 ELSE IF ~(n >= 3 /\ IsCont(b[3])) THEN Utf8Decode(Drop(b, 2))
                 ELSE <<(b0 - 224) * 4096 + (b[2] - 128) * 64 + (b[3] - 128)>>
                          \o Utf8Decode(Drop(b, 3))
             ELSE IF b0 \in 240..244 THEN
                 IF ~(n >= 2 /\ SecondOk(b0, b[2])) THEN Utf8Decode(Drop(b, 1))
                 ELSE IF ~(n >= 3 /\ IsCont(b[3])) THEN Utf8Decode(Drop(b, 2))
                 ELSE IF ~(n >= 4 /\ IsCont(b[4])) THEN Utf8Decode(Drop(b, 3))
                 ELSE <<(b0 - 240) * 262144 + (b[2] - 128) * 4096 + (b[3] - 128) * 64
                            + (b[4] - 128)>> \o Utf8Decode(Drop(b, 4))
             ELSE Utf8Decode(Drop(b, 1))

----------------------------------------------------------------------------
(* decode_attributed_body, lines 52-89.  Indices are Python's (from 0):    *)
(* Find is bytes.find, Slice(b, i, j) is b[i:j].                           *)

Find(b, lit, from) ==
    LET hits == {i \in from..(Len(b) - Len(lit)) : HasAt(b, i + 1, lit)}
    IN  IF hits = {} THEN -1 ELSE Least(hits)

Slice(b, i, j) == SubSeq(b, i + 1, j)

\* b'NSString'
MarkerNSString == Str(<<"N","S","S","t","r","i","n","g">>)

BinaryData == Str(<<"[","b","i","n","a","r","y"," ","d","a","t","a","]">>)

\* line 82
offset == 50

\* What NSKeyedUnarchiver makes of a blob is not in this repository: lines
\* 60-65 either raise (Raises) or yield str(obj.string()), and NoString
\* stands for "obj is nil or has no string attribute".
Raises == << -2 >>

NoString == << -3 >>

\* lines 58-69: the text method 1 returns, None when it falls through
Method1(pyobjc, obj) ==
    IF pyobjc /\ obj # Raises /\ obj # NoString /\ obj # << >> THEN obj ELSE None

\* lines 72-79
Method2(d) ==
    IF Find(d, MarkerNSString, 0) # -1
    THEN LET idx == Find(d, MarkerNSString, 0) + 8
         IN  IF idx < Len(d)
             THEN LET end_idx == Find(d, <<0>>, idx)
                  IN  IF end_idx > idx
                      THEN LET t == Utf8Decode(Slice(d, idx, end_idx))
                           IN  IF t # << >> THEN t ELSE None
                      ELSE None
             ELSE None
    ELSE None

\* lines 82-87
Method3(d) ==
    IF Len(d) > offset
    THEN LET potential == Utf8Decode(Slice(d, offset, Len(d)))
             kept == SelectSeq(potential, KeepChar)
         IN  IF kept # << >> THEN Strip(kept) ELSE None
    ELSE None

decode_attributed_body(d, pyobjc, obj) ==
    IF Falsy(d) THEN None
    ELSE LET m1 == Method1(pyobjc, obj)
             m2 == Method2(d)
             m3 == Method3(d)
         IN  IF m1 # None THEN m1
             ELSE IF m2 # None THEN m2
             ELSE IF m3 # None THEN m3
             ELSE BinaryData

----------------------------------------------------------------------------
(* apple_to_unix and apple_to_datetime, lines 37-49.                       *)
(*                                                                         *)
(* A timestamp is a 64-bit count of nanoseconds.  TLC's integers have 32   *)
(* bits, so the int ts is held as the pair <<s, n>> with                   *)
(* ts = s * 10^9 + n and 0 <= n < 10^9 (s is floor(ts / 10^9)); an int     *)
(* that a function returns instead of None is the pair <<0, x>>.           *)
(*                                                                         *)
(* "/" on two ints and "+" on a float are IEEE-754 binary64 operations,    *)
(* each rounded to nearest, ties to even.  A float is <<sign, ip, k>>,     *)
(* of magnitude ip + k / 2^30.  Floats of magnitude 2^22 and more have     *)
(* a unit in the last place of 2^-30 or more and are held exactly.  A      *)
(* quotient below 2^22 has bits beyond 2^-30: they are folded into the     *)
(* last bit of k (round to odd), which leaves every later rounding to      *)
(* 2^-23 or coarser as it is for quotients of magnitude below 2^8; the     *)
(* inputs keep |s| below 2^8 or at 2^22 and above.                         *)

APPLE_EPOCH == 978307200

NANOS == 1000000000

\* NANOS = 2^9 * 5^9
Pow5 == 5^9

\* floats of magnitude 2^22 keep 52 - 22 bits after the binary point
FracBits == 52 - 22

TwoTo30 == 2^FracBits

Pow2(e) == 2^e

\* floor(log2(i)) for 1 <= i < 2^31
Log2(i) == CHOOSE e \in 0..30 : Pow2(e) <= i /\ (e = 30 \/ i < Pow2(e + 1))

\* bits a float of integer part ip keeps after the binary point (53-bit significand)
GridBits(ip) == IF ip = 0 THEN 53 ELSE 52 - Log2(ip)

\* <<floor(n * 2^m / 5^9), n * 2^m mod 5^9>>, ten bits at a time so that no
\* product leaves 32 bits
RECURSIVE ScaleDiv(_, _)
ScaleDiv(n, m) ==
    IF m = 0 THEN <<n \div Pow5, n % Pow5>>
    ELSE LET c == IF m > 10 THEN 10 ELSE m
             h == ScaleDiv(n, m - c)
         IN  <<h[1] * Pow2(c) + ((h[2] * Pow2(c)) \div Pow5), (h[2] * Pow2(c)) % Pow5>>

\* the magnitude of ts as <<whole seconds, nanoseconds>>
Magnitude(ts) ==
    IF ts[1] >= 0 THEN ts
    ELSE IF ts[2] = 0 THEN <<-ts[1], 0>>
    ELSE <<-ts[1] - 1, NANOS - ts[2]>>

\* timestamp / 1_000_000_000
FloatDivNanos(ts) ==
    LET sign == IF ts[1] >= 0 THEN 1 ELSE -1
        m == Magnitude(ts)
        g == IF GridBits(m[1]) > FracBits THEN FracBits ELSE GridBits(m[1])
        h == ScaleDiv(m[2], g - 9)
        exact == GridBits(m[1]) <= FracBits
        \* nearest (5^9 is odd: no ties), or the inexact bits folded into the last one
        q == IF exact THEN (IF 2 * h[2] > Pow5 THEN h[1] + 1 ELSE h[1])
             ELSE (IF h[2] # 0 /\ h[1] % 2 = 0 THEN h[1] + 1 ELSE h[1])
        k == q * Pow2(FracBits - g)
    IN  IF k = TwoTo30 THEN <<sign, m[1] + 1, 0>> ELSE <<sign, m[1], k>>

\* the nearest float to a magnitude ip + k / 2^30, ties to even
RoundFloat(sign, ip, k) ==
    LET g == GridBits(ip)
    IN  IF g >= FracBits THEN <<sign, ip, k>>
        ELSE LET u == Pow2(FracBits - g)
                 lo == k % u
                 up == lo * 2 > u \/ (lo * 2 = u /\ (k \div u) % 2 = 1)
                 r == (k \div u + (IF up THEN 1 ELSE 0)) * u
             IN  IF r = TwoTo30 THEN <<sign, ip + 1, 0>> ELSE <<sign, ip, r>>

\* x + APPLE_EPOCH
FloatAddEpoch(x) ==
    IF x[1] = 1 THEN RoundFloat(1, x[2] + APPLE_EPOCH, x[3])
    ELSE IF x[2] < APPLE_EPOCH
         THEN (IF x[3] = 0 THEN RoundFloat(1, APPLE_EPOCH - x[2], 0)
               ELSE RoundFloat(1, APPLE_EPOCH - x[2] - 1, TwoTo30 - x[3]))
    ELSE RoundFloat(-1, x[2] - APPLE_EPOCH, x[3])

\* int(x): towards zero
IntOfFloat(x) == x[1] * x[2]

\* "not timestamp": None or 0
NoTimestamp(ts) == ts = None \/ ts = <<0, 0>>

apple_to_unix(ts) ==
    IF NoTimestamp(ts) THEN None
    ELSE <<0, IntOfFloat(FloatAddEpoch(FloatDivNanos(ts)))>>

\* The calendar string is the float it formats: strftime and the local time
\* zone are not modelled.
apple_to_datetime(ts) ==
    IF NoTimestamp(ts) THEN None
    ELSE FloatAddEpoch(FloatDivNanos(ts))

----------------------------------------------------------------------------
(* Inputs: the strings spelled by at most n fragments of a set F.          *)

RECURSIVE Concats(_, _)
Concats(F, n) ==
    IF n = 0 THEN {<< >>}
    ELSE LET shorter == Concats(F, n - 1)
         IN  shorter \cup {p \o f : p \in shorter, f \in F}

MaxCleanFrags == 3

CleanFragments == {
    Str(<<"d">>), Str(<<"O">>), Str(<<"M","G">>), Str(<<"i">>), Str(<<" ">>), Str(<<"'">>),
    Str(<<"h","t","t","p">>), Str(<<"H","t","T","p">>), Str(<<"1">>), Str(<<"+">>),
    Str(<<"U+FFFC">>), Str(<<"SOH">>), Str(<<"\n">>), Str(<<"j","I">>), Str(<<"&">>),
    LitNSDictionary, LitNSMutable \o Str(<<"S","t","r">>), LitKIM }

CleanInputs == {None} \cup Sentinels \cup Concats(CleanFragments, MaxCleanFrags)

MaxClassifyFrags == 3

ClassifyFragments ==
    {ReactionWords[i] : i \in 1..Len(ReactionWords)} \cup
    {Str(<<"l","o","v","e","d">>), Str(<<" ">>), Str(<<"\t">>), Str(<<"NBSP">>), Str(<<"x">>),
     Str(<<"\"">>), Str(<<"'">>), Str(<<"U+201C">>), Str(<<"U+201D">>), Str(<<"U+2018">>),
     Str(<<"U+2019">>), Str(<<"BACKTICK">>)}

ClassifyInputs == {None} \cup Concats(ClassifyFragments, MaxClassifyFrags)

----------------------------------------------------------------------------
(* The values the variables of a function hold while another one runs.     *)

IdleClean ==
    /\ text = None /\ cleaned = None /\ reaching9 = None /\ leaving9 = None
    /\ recleaned = None /\ flag = FALSE

IdleDecode ==
    /\ data = None /\ PYOBJC_AVAILABLE = FALSE /\ unarchived = NoString
    /\ decoded = None /\ raised = FALSE

IdleTime == timestamp = None /\ date_unix = None /\ date = None

IdleSource == message = << >> /\ chat_message_join = {} /\ chat_ids = {}

IdleEtl ==
    /\ rows = << >> /\ count = 0 /\ messages = << >> /\ trail = << >>
    /\ target_messages = << >> /\ target_join = {}

----------------------------------------------------------------------------
(* clean_message applied to an input, then to its own result.              *)

InitClean ==
    /\ pc = "start"
    /\ text \in CleanInputs
    /\ cleaned = None /\ reaching9 = None /\ leaving9 = None /\ recleaned = None
    /\ flag = FALSE
    /\ IdleDecode /\ IdleTime /\ IdleSource /\ IdleEtl

CleanMessage ==
    /\ pc = "start"
    /\ pc' = "cleaned"
    /\ cleaned' = clean_message(text)
    /\ reaching9' = IF Falsy(text) \/ text \in Sentinels THEN None ELSE BeforeArtifact(text)
    /\ leaving9' = IF Falsy(text) \/ text \in Sentinels THEN None
                   ELSE LeadingArtifact(BeforeArtifact(text))
    /\ UNCHANGED <<text, recleaned, flag, decodeVars, timeVars, sourceVars, etlVars>>

CleanAgain ==
    /\ pc = "cleaned"
    /\ pc' = "recleaned"
    /\ recleaned' = clean_message(cleaned)
    /\ UNCHANGED <<text, cleaned, reaching9, leaving9, flag>>
    /\ UNCHANGED <<decodeVars, timeVars, sourceVars, etlVars>>

NextClean == CleanMessage \/ CleanAgain

SpecClean == InitClean /\ [][NextClean]_vars

----------------------------------------------------------------------------
(* The classifiers applied to an input.                                    *)

InitClassify ==
    /\ pc = "start"
    /\ text \in ClassifyInputs
    /\ cleaned = None /\ reaching9 = None /\ leaving9 = None /\ recleaned = None
    /\ flag = FALSE
    /\ IdleDecode /\ IdleTime /\ IdleSource /\ IdleEtl

IsReactionMessage ==
    /\ pc = "start"
    /\ pc' = "reaction"
    /\ flag' = is_reaction_message(text)
    /\ UNCHANGED <<text, cleaned, reaching9, leaving9, recleaned>>
    /\ UNCHANGED <<decodeVars, timeVars, sourceVars, etlVars>>

IsQuotedMessage ==
    /\ pc = "start"
    /\ pc' = "quoted"
    /\ flag' = is_quoted_message(text)
    /\ UNCHANGED <<text, cleaned, reaching9, leaving9, recleaned>>
    /\ UNCHANGED <<decodeVars, timeVars, sourceVars, etlVars>>

NextClassify == IsReactionMessage \/ IsQuotedMessage

SpecClassify == InitClassify /\ [][NextClassify]_vars

----------------------------------------------------------------------------
(* decode_attributed_body applied to a blob.                               *)

\* the bytes before offset 50
Padding == [i \in 1..offset |-> 1]

Utf8Hello == Str(<<"h","e","l","l","o">>)

\* the UTF-8 bytes of U+00E9 and of U+201C "hi"
Utf8Accent == <<195, 169>>

Utf8Quoted == <<226, 128, 156, 104, 105>>

BlobPrefixes == {<< >>, Padding}

BlobMarkers == {<< >>, MarkerNSString}

\* eight bytes after the marker: ASCII letters; the bytes a typedstream holds
\* there; bytes that decode to nothing; a NUL first; a NUL in the middle
BlobFillers == {
    << >>,
    <<65, 65, 65, 65, 65, 65, 65, 65>>,
    <<1, 148, 132, 1, 43, 5, 128, 129>>,
    <<128, 129, 130, 131, 132, 133, 134, 135>>,
    <<0, 65, 65, 65, 65, 65, 65, 65>>,
    <<65, 65, 65, 0, 65, 65, 65, 65>> }

BlobTexts == {<< >>, Utf8Hello, Utf8Accent, Utf8Quoted, <<32, 9, 10>>, <<32>>, <<1, 2>>}

BlobEnds == {<< >>, <<0>>}

DecodeInputs ==
    {p \o m \o f \o t \o z :
        p \in BlobPrefixes, m \in BlobMarkers, f \in BlobFillers, t \in BlobTexts, z \in BlobEnds}

UnarchiveOutcomes == {Raises, NoString, << >>, Str(<<"h","i">>)}

InitDecode ==
    /\ pc = "start"
    /\ data \in DecodeInputs
    /\ PYOBJC_AVAILABLE \in BOOLEAN
    /\ unarchived \in (IF PYOBJC_AVAILABLE THEN UnarchiveOutcomes ELSE {NoString})
    /\ decoded = None /\ raised = FALSE
    /\ IdleClean /\ IdleTime /\ IdleSource /\ IdleEtl

\* lines 68-69: "except:" catches whatever lines 60-67 raise
CaughtByExcept == TRUE

DecodeAttributedBody ==
    /\ pc = "start"
    /\ pc' = "decoded"
    /\ decoded' = decode_attributed_body(data, PYOBJC_AVAILABLE, unarchived)
    /\ raised' = (~Falsy(data) /\ PYOBJC_AVAILABLE /\ unarchived = Raises /\ ~CaughtByExcept)
    /\ UNCHANGED <<data, PYOBJC_AVAILABLE, unarchived>>
    /\ UNCHANGED <<cleanVars, timeVars, sourceVars, etlVars>>

NextDecode == DecodeAttributedBody

SpecDecode == InitDecode /\ [][NextDecode]_vars

----------------------------------------------------------------------------
(* apple_to_unix and apple_to_datetime applied to a timestamp.             *)

\* whole seconds: around 2001-01-01, around 1970-01-01, 2023-01-01, 2004, 1939
TimeSeconds == {0, 1, -1, -2, 7, -200, 255,
                694224000, 694224001, 100000000, 4194304, -4194305,
                -978307200, -978307201, -978307202, -978307199, -2000000000}

TimeNanos == {0, 1, 59, 60, 500000000, 999999939, 999999940, 999999941, 999999999}

TimeInputs == {None} \cup {<<s, n>> : s \in TimeSeconds, n \in TimeNanos}

InitTime ==
    /\ pc = "start"
    /\ timestamp \in TimeInputs
    /\ date_unix = None /\ date = None
    /\ IdleClean /\ IdleDecode /\ IdleSource /\ IdleEtl

AppleToUnix ==
    /\ pc = "start"
    /\ pc' = "unix"
    /\ date_unix' = apple_to_unix(timestamp)
    /\ UNCHANGED <<timestamp, date>>
    /\ UNCHANGED <<cleanVars, decodeVars, sourceVars, etlVars>>

AppleToDatetime ==
    /\ pc = "start"
    /\ pc' = "datetime"
    /\ date' = apple_to_datetime(timestamp)
    /\ UNCHANGED <<timestamp, date_unix>>
    /\ UNCHANGED <<cleanVars, decodeVars, sourceVars, etlVars>>

NextTime == AppleToUnix \/ AppleToDatetime

SpecTime == InitTime /\ [][NextTime]_vars

----------------------------------------------------------------------------
(* create_clean_database, lines 283-351: the message query, the loop over  *)
(* its rows, the insert and the copy of the join table.  A row of the      *)
(* query is <<message_id, chat_id>>: the columns it selects are those of   *)
(* message[message_id].                                                    *)

\* ORDER BY m.date ASC: NULL sorts first
DateLE(a, b) ==
    \/ a = None
    \/ b # None /\ (a[1] < b[1] \/ (a[1] = b[1] /\ a[2] <= b[2]))

\* the orders in which the query may return the joined rows J
RECURSIVE QueryOrders(_, _)
QueryOrders(msg, J) ==
    IF J = {} THEN {<< >>}
    ELSE UNION {
        {<<j>> \o rest : rest \in QueryOrders(msg, J \ {j})} :
            j \in {x \in J : \A y \in J : DateLE(msg[x[1]].date, msg[y[1]].date)} }

\* lines 289-291: message JOIN chat_message_join WHERE chat_id IN (chat_ids)
JoinedRows(msg, cmj, ids) == {j \in cmj : j[1] \in 1..Len(msg) /\ j[2] \in ids}

\* line 305: the blob is handed to the decoder
UsesDecoder(row) == Falsy(row.text) /\ ~Falsy(row.attributedBody)

\* a variant that tries the blob before the plain text
PreTextBlobFirst(row, pyobjc, obj) ==
    IF ~Falsy(row.attributedBody)
    THEN [decoded |-> decode_attributed_body(row.attributedBody, pyobjc, obj),
          decoder_ran |-> TRUE]
    ELSE IF ~Falsy(row.text) THEN [decoded |-> row.text, decoder_ran |-> FALSE]
    ELSE [decoded |-> << >>, decoder_ran |-> FALSE]

\* lines 303-308: local decoded, and whether line 306 ran
PreText(row, pyobjc, obj) ==
    IF ~Falsy(row.text) THEN [decoded |-> row.text, decoder_ran |-> FALSE]
    ELSE IF ~Falsy(row.attributedBody)
         THEN [decoded |-> decode_attributed_body(row.attributedBody, pyobjc, obj),
               decoder_ran |-> TRUE]
    ELSE [decoded |-> << >>, decoder_ran |-> FALSE]

\* line 310
CleanedText(pre) == IF ~Falsy(pre) THEN clean_message(pre) ELSE << >>

\* lines 316-330: the columns of the record that the model keeps
OutputRecord(id, row, pre) ==
    LET c == CleanedText(pre)
    IN  [ id |-> id,
          text |-> row.text,
          decoded_text |-> c,
          date |-> apple_to_datetime(row.date),
          date_unix |-> apple_to_unix(row.date),
          is_reaction |-> IF is_reaction_message(c) THEN 1 ELSE 0,
          is_quote |-> IF is_quoted_message(c) THEN 1 ELSE 0 ]

\* messages.id is the table's PRIMARY KEY: executemany raises IntegrityError
\* on the second record with an id
DuplicateId(recs) == \E i, j \in 1..Len(recs) : i # j /\ recs[i].id = recs[j].id

SelectMessages ==
    /\ pc = "select"
    /\ pc' = "loop"
    /\ rows' \in QueryOrders(message, JoinedRows(message, chat_message_join, chat_ids))
    /\ UNCHANGED <<count, messages, trail, target_messages, target_join>>
    /\ UNCHANGED <<cleanVars, decodeVars, timeVars, sourceVars>>

ProcessRow ==
    /\ pc = "loop"
    /\ count < Len(rows)
    /\ LET id == rows[count + 1][1]
           row == message[id]
       IN  \E obj \in (IF PYOBJC_AVAILABLE /\ UsesDecoder(row) THEN UnarchiveOutcomes
                       ELSE {unarchived}) :
               LET pre == PreText(row, PYOBJC_AVAILABLE, obj)
               IN  /\ unarchived' = obj
                   /\ messages' = Append(messages, OutputRecord(id, row, pre.decoded))
                   /\ trail' = Append(trail, pre)
    /\ count' = count + 1
    /\ UNCHANGED <<pc, rows, target_messages, target_join>>
    /\ UNCHANGED <<cleanVars, data, PYOBJC_AVAILABLE, decoded, raised, timeVars, sourceVars>>

InsertMessages ==
    /\ pc = "loop"
    /\ count = Len(rows)
    /\ IF DuplicateId(messages)
       THEN pc' = "IntegrityError" /\ UNCHANGED target_messages
       ELSE pc' = "inserted" /\ target_messages' = messages
    /\ UNCHANGED <<rows, count, messages, trail, target_join>>
    /\ UNCHANGED <<cleanVars, decodeVars, timeVars, sourceVars>>

\* lines 339-344 and the commit of line 381
CopyJoinTable ==
    /\ pc = "inserted"
    /\ pc' = "done"
    /\ target_join' = {j \in chat_message_join : j[2] \in chat_ids}
    /\ UNCHANGED <<rows, count, messages, trail, target_messages>>
    /\ UNCHANGED <<cleanVars, decodeVars, timeVars, sourceVars>>

NextEtl == SelectMessages \/ ProcessRow \/ InsertMessages \/ CopyJoinTable

\* A source in which every message is in chat 1, the chat selected: what
\* varies is the text and the attributedBody of each message.
MaxRows == 2

RowTexts == {None, << >>, Str(<<"d","O","M","G">>)}

RowBlobs == {None, << >>,
             MarkerNSString \o <<1, 148, 132, 1, 43, 5, 128, 129>> \o Utf8Hello \o <<0>>,
             Padding \o <<32, 9>>,
             <<1, 2>>}

\* message i dates from 2023-01-01 plus i seconds
RowSources ==
    UNION {{[i \in 1..n |-> [text |-> f[i].text, attributedBody |-> f[i].attributedBody,
                             date |-> <<694224000 + i, 0>>]] :
               f \in [1..n -> [text : RowTexts, attributedBody : RowBlobs]]} :
              n \in 1..MaxRows}

InitRows ==
    /\ pc = "select"
    /\ message \in RowSources
    /\ chat_message_join = {<<m, 1>> : m \in 1..Len(message)}
    /\ chat_ids = {1}
    /\ PYOBJC_AVAILABLE \in BOOLEAN
    /\ data = None /\ unarchived = NoString /\ decoded = None /\ raised = FALSE
    /\ IdleClean /\ IdleTime /\ IdleEtl

SpecRows == InitRows /\ [][NextEtl]_vars

\* A source of up to MaxMessages messages and MaxChats chats: what varies is
\* the date of each message, the chats it is in and the chats selected.
MaxMessages == 2

MaxChats == 2

JoinDates == {None, <<694224000, 0>>, <<694224001, 0>>}

JoinSources ==
    UNION {[1..n -> [text : {Str(<<"h","i">>)}, attributedBody : {None}, date : JoinDates]] :
              n \in 1..MaxMessages}

InitJoin ==
    /\ pc = "select"
    /\ message \in JoinSources
    /\ chat_message_join \in SUBSET ((1..Len(message)) \X (1..MaxChats))
    /\ chat_ids \in (SUBSET (1..(MaxChats + 1))) \ {{}}
    /\ IdleDecode /\ IdleClean /\ IdleTime /\ IdleEtl

SpecJoin == InitJoin /\ [][NextEtl]_vars

----------------------------------------------------------------------------
(* The claims.                                                             *)

\* C1: clean_message is idempotent: cleaning the result of clean_message
\* returns that result unchanged, for every input string.
C1_Idempotent == pc = "recleaned" => recleaned = cleaned

\* C2: decode_attributed_body returns a string (never None) and raises
\* nothing, for every byte sequence, the empty one included, whatever the
\* archive deserializer does.
C2_DecodeTotal == pc = "decoded" => (decoded # None /\ ~raised)

\* the texts T of C3 in BlobTexts (non-empty, no NUL): <<UTF-8 bytes, T>>
MarkerTexts == {
    <<Utf8Hello, Str(<<"h","e","l","l","o">>)>>,
    <<Utf8Accent, Str(<<"U+00E9">>)>>,
    <<Utf8Quoted, Str(<<"U+201C","h","i">>)>>,
    <<<<32>>, Str(<<" ">>)>> }

\* C3: without the archive deserializer, a blob made of the marker NSString,
\* any 8 filler bytes, the UTF-8 bytes of a non-empty text T without NUL and
\* one NUL byte decodes to exactly T.
C3_MarkerScanSkipsFiller ==
    (pc = "decoded" /\ ~PYOBJC_AVAILABLE) =>
        \A f \in {x \in BlobFillers : Len(x) = 8} : \A t \in MarkerTexts :
            data = MarkerNSString \o f \o t[1] \o <<0>> => decoded = t[2]

\* C4: for every row processed, a non-empty plain text is the text to clean
\* and the decoder is not run; the decoder is run only when the plain text is
\* null or empty and a blob is there, and its result is then the text to
\* clean; with neither, the text to clean is empty; and the stored
\* decoded_text is a string, never null.
C4_DispatchPolicy ==
    \A i \in 1..Len(trail) :
        LET row == message[rows[i][1]]
        IN  /\ (row.text # None /\ row.text # << >>) =>
                   (trail[i].decoded = row.text /\ ~trail[i].decoder_ran)
            /\ trail[i].decoder_ran =>
                   /\ (row.text = None \/ row.text = << >>)
                   /\ row.attributedBody # None
                   /\ \E obj \in UnarchiveOutcomes :
                          trail[i].decoded =
                              decode_attributed_body(row.attributedBody, PYOBJC_AVAILABLE, obj)
            /\ ((row.text = None \/ row.text = << >>) /\ row.attributedBody = None) =>
                   (trail[i].decoded = << >> /\ ~trail[i].decoder_ran)
            /\ ((row.text = None \/ row.text = << >>) /\ row.attributedBody # None
                    /\ row.attributedBody # << >>) => trail[i].decoder_ran
            /\ messages[i].decoded_text # None

\* C4: a run that has processed a row whose plain text won over a blob and a
\* row whose blob was decoded
C4_Witness ==
    /\ pc = "done"
    /\ \E i, j \in 1..Len(trail) :
          /\ message[rows[i][1]].text # None /\ message[rows[i][1]].text # << >>
          /\ message[rows[i][1]].attributedBody # None
          /\ message[rows[i][1]].attributedBody # << >>
          /\ ~trail[i].decoder_ran
          /\ trail[j].decoder_ran

\* C5: apple_to_unix and apple_to_datetime return None for None and for 0;
\* for every other timestamp ts, apple_to_unix(ts) is
\* floor(ts / 1_000_000_000) + 978307200.
C5_UnixIsFloor ==
    /\ (pc = "unix" /\ (timestamp = None \/ timestamp = <<0, 0>>)) => date_unix = None
    /\ (pc = "datetime" /\ (timestamp = None \/ timestamp = <<0, 0>>)) => date = None
    /\ (pc = "unix" /\ timestamp # None /\ timestamp # <<0, 0>>) =>
           date_unix = <<0, timestamp[1] + 978307200>>

\* the words and the quote characters as the claims list them
ClaimedReactionWords == {
    Str(<<"R","e","a","c","t","e","d">>), Str(<<"L","o","v","e","d">>),
    Str(<<"L","a","u","g","h","e","d">>), Str(<<"E","m","p","h","a","s","i","z","e","d">>),
    Str(<<"D","i","s","l","i","k","e","d">>), Str(<<"Q","u","e","s","t","i","o","n","e","d">>),
    Str(<<"L","i","k","e","d">>) }

ClaimedQuoteChars == {34, 39, 8220, 8221, 8216, 8217}

\* C6: is_reaction_message(text) is true exactly when text is one of the
\* seven words followed by a whitespace character followed by anything; it
\* is false for None and for the empty string.
C6_ReactionIff ==
    pc = "reaction" =>
        (flag <=> /\ text # None
                  /\ \E w \in ClaimedReactionWords :
                         /\ Len(text) >= Len(w) + 1
                         /\ \A k \in 1..Len(w) : text[k] = w[k]
                         /\ IsSpace(text[Len(w) + 1]))

\* C6: a reaction word, whitespace and more text were classified
C6_Witness == pc = "reaction" /\ flag /\ text # None /\ Len(text) >= 8

\* C7: is_quoted_message(text) is true exactly when some character of text
\* is one of the six quote characters and only whitespace follows it; it is
\* false for None, for the empty string and for whitespace alone.
C7_QuotedIff ==
    pc = "quoted" =>
        (flag <=> /\ text # None
                  /\ \E k \in 1..Len(text) :
                         /\ text[k] \in ClaimedQuoteChars
                         /\ \A j \in (k + 1)..Len(text) : IsSpace(text[j]))

\* C7: a text that ends in a quote character and then whitespace was
\* classified as quoted
C7_Witness ==
    /\ pc = "quoted" /\ flag /\ text # None
    /\ Len(text) >= 2 /\ IsSpace(text[Len(text)])

\* the three sub-rules of the leading-artifact correction, as C8 states them
RuleLowerUpper(s) == IsLower(s[1]) /\ IsUpper(s[2])

RuleHttp(s) == Len(s) >= 5 /\ \A k \in 1..4 : LowerChar(s[k + 1]) = LitHttp[k]

RuleLetterI(s) == s[2] = 105 /\ s[3] \in {32, 39}

\* C8: the correction changes the string reaching it only if that string has
\* more than 2 characters and an alphabetic first one; it then removes the
\* first character, and nothing else, exactly when one of the sub-rules
\* (a), (b), (c) holds; two leading uppercase letters never make (a) hold, so
\* an all-caps word that is no (b) or (c) case stays as it is.
C8_SingleShot ==
    (pc # "start" /\ reaching9 # None) =>
        LET s == reaching9
            considered == Len(s) > 2 /\ IsAlpha(s[1])
            fires == considered /\ (RuleLowerUpper(s) \/ RuleHttp(s) \/ RuleLetterI(s))
        IN  /\ leaving9 = (IF fires THEN Tail(s) ELSE s)
            /\ (considered /\ IsUpper(s[1]) /\ IsUpper(s[2]) /\ ~RuleHttp(s) /\ ~RuleLetterI(s))
                   => leaving9 = s

\* C8: an uppercase letter was dropped by sub-rule (b) or (c)
C8_Witness ==
    /\ pc = "cleaned" /\ reaching9 # None
    /\ Len(reaching9) > 2 /\ IsUpper(reaching9[1])
    /\ leaving9 = Tail(reaching9)

\* C9: for every non-empty blob the result of decode_attributed_body is a
\* non-empty string: a strategy that yields no character falls through, at
\* last to the sentinel "[binary data]".
C9_ResultNonEmpty ==
    (pc = "decoded" /\ data # << >>) => (decoded # None /\ decoded # << >>)

\* C10: create_clean_database emits exactly one record for each message that
\* is in a selected chat, no two records with one id, in non-decreasing order
\* of the native timestamp.
C10_ExactlyOnce ==
    pc \in {"inserted", "IntegrityError", "done"} =>
        /\ \A i, j \in 1..Len(messages) : i # j => messages[i].id # messages[j].id
        /\ {messages[i].id : i \in 1..Len(messages)} =
               {m \in 1..Len(message) : \E c \in chat_ids : <<m, c>> \in chat_message_join}
        /\ \A i, j \in 1..Len(messages) :
               i < j => DateLE(message[messages[i].id].date, message[messages[j].id].date)
        /\ pc = "done" => target_messages = messages

====
